---- MODULE Spec2Model ----
(***************************************************************************)
(* Orchestration core of the trading-bot fleet: SwarmManager               *)
(* (src/swarm_manager.py), the placement columns of the users table        *)
(* (src/database.py) and the per-user config template                      *)
(* (src/config_manager.py).                                                *)
(*                                                                         *)
(* Strings of the source are written in ASCII:                             *)
(*   user status  "运行中" -> "running",  "停止" -> "stopped"              *)
(*   messages     "Docker 未连接" -> "docker_not_connected", and so on,    *)
(*   see the Msg* definitions.                                             *)
(***************************************************************************)
EXTENDS Integers, Sequences, FiniteSets, TLC

VARIABLES
    client,        \* SwarmManager.client is set (Docker reachable at construction)
    nodes,         \* the cluster: node id -> node attributes (read-only for the program)
    services,      \* the orchestrator's services (set of records)
    nextId,        \* the orchestrator's next fresh service id
    users,         \* users table: user_id -> row, or NoRow
    userColumns,   \* column names of the users table
    subscription,  \* user_id -> max_capital of the active subscription, or NoSub
    hostConfig,    \* user_id -> the config.json ConfigManager wrote for the user
    templates,     \* users whose mounted config directory holds config.json
    publishedPorts,\* user_id -> set of host ports ever submitted for the user
    last,          \* observation of the latest lifecycle call
    container,     \* one container running the startup script of create_service
    selected,      \* user_id -> the node a create_service in progress selected
    settled        \* every selection so far ran alone / saw every task running

vars == <<client, nodes, services, nextId, users, userColumns, subscription,
          hostConfig, templates, publishedPorts, last, container, selected, settled>>

\* The variables of the startup script and of the interleaved calls.
aux == <<container, selected, settled>>

\* The variables of the lifecycle manager and its stores.
manager == <<client, nodes, services, nextId, users, userColumns, subscription,
             hostConfig, templates, publishedPorts, last>>

----------------------------------------------------------------------------
(* Bounds *)

MaxServiceIds == 2      \* service ids the orchestrator hands out in one behaviour
MaxBadNodes   == 1      \* nodes whose task enumeration raises within one call

UserIds == {12345, 346}
NodeIds == {"n1", "n2", "n3"}

\* A nullable value is NULL or Some(v).
NULL    == << >>
Some(v) == <<v>>
Val(x)  == x[1]

NoNode  == "NoNode"
NoAddr  == "NoAddr"     \* the node's attributes carry no address

\* The max_containers label of a node: absent, a number, or text int() rejects.
NoLabel     == [kind |-> "none", val |-> 0]
Label(n)    == [kind |-> "int",  val |-> n]
BadLabel    == [kind |-> "bad",  val |-> 0]

ApiKeys == {"K1"}
Secrets == {"S1"}

PLACEHOLDER_API_KEY == "PLACEHOLDER_API_KEY"
PLACEHOLDER_SECRET  == "PLACEHOLDER_SECRET"

----------------------------------------------------------------------------
(* Result messages *)

MsgNotConnected  == "docker_not_connected"     \* "Docker 未连接"
MsgDirFailed     == "user_dir_failed"          \* "创建用户目录失败或配置文件不存在"
MsgNoNode        == "no_available_node"        \* "❌ 无可用节点 ..."
MsgNoUser        == "user_not_found"           \* "用户不存在"
MsgNoCredentials == "api_key_not_configured"   \* "API 密钥未配置，请先使用 /bind 命令绑定"
MsgCreateFailed  == "create_failed"            \* "创建服务失败: ..."
MsgCreated       == "service_created"          \* "✅ 服务创建成功: ..."
MsgStopped       == "service_stopped_removed"  \* "服务已停止并删除"
MsgNotExist      == "service_not_exist"        \* "服务不存在"
MsgStopFailed    == "stop_failed"              \* "停止服务失败: ..."
MsgLogsFailed    == "logs_failed"              \* "获取日志失败: ..."
MsgLogs          == "logs"                     \* the decoded log text

\* In place of a message: the operation returned nothing, an exception left it.
Raised           == "exception_escaped"

----------------------------------------------------------------------------
(* The order in which the orchestrator enumerates the nodes.                *)

Reverse(q) == [i \in 1..Len(q) |-> q[Len(q) + 1 - i]]

\* The enumeration orders tried: by node id, ascending and descending.
Orders(S) ==
    LET InS(n) == n \in S
        up == SelectSeq(<<"n1", "n2", "n3">>, InS)
    IN  {up, Reverse(up)}

----------------------------------------------------------------------------
(* Clusters.  A node: role, Status.State, Spec.Availability, the           *)
(* max_containers label, hostname, Status.Addr, and `others`: running      *)
(* tasks of app=freqtrade services of users outside UserIds.               *)

Node(role, state, avail, label, host, addr, others) ==
    [role |-> role, state |-> state, availability |-> avail, maxLabel |-> label,
     hostname |-> host, addr |-> addr, others |-> others]

ClusterExample ==
    [n \in NodeIds |->
        CASE n = "n1" -> Node("worker",  "ready", "active", NoLabel, "W1", "10.0.0.1", 5)
          [] n = "n2" -> Node("worker",  "ready", "active", NoLabel, "W2", "10.0.0.2", 50)
          [] n = "n3" -> Node("manager", "ready", "active", Label(5), "M1", "10.0.0.3", 1)]

\* Every worker is at its maximum; the manager is not.
ClusterFull ==
    [n \in NodeIds |->
        CASE n = "n1" -> Node("worker",  "ready", "active", Label(2), "W1", "10.0.0.1", 2)
          [] n = "n2" -> Node("worker",  "ready", "active", NoLabel, "W2", "10.0.0.2", 50)
          [] n = "n3" -> Node("manager", "ready", "active", NoLabel, "M1", "10.0.0.3", 1)]

ClusterTight ==
    [n \in NodeIds |->
        CASE n = "n1" -> Node("worker",  "ready", "active", Label(2), "W1", "10.0.0.1", 1)
          [] n = "n2" -> Node("worker",  "ready", "active", Label(1), "W2", NoAddr,     0)
          [] n = "n3" -> Node("manager", "ready", "drain",  NoLabel, "M1", "10.0.0.3", 0)]

ClusterBigLabel ==
    [n \in NodeIds |->
        CASE n = "n1" -> Node("worker",  "ready", "active", Label(1000), "W1", "10.0.0.1", 0)
          [] n = "n2" -> Node("worker",  "down",  "active", BadLabel, "W2", "10.0.0.2", 0)
          [] n = "n3" -> Node("manager", "ready", "pause",  NoLabel,  "M1", "10.0.0.3", 0)]

\* No worker; the two managers carry the same load.
ClusterManagers ==
    [n \in {"n1", "n3"} |->
        CASE n = "n1" -> Node("manager", "ready", "active", NoLabel, "M0", "10.0.0.1", 1)
          [] n = "n3" -> Node("manager", "ready", "active", NoLabel, "M1", "10.0.0.3", 1)]

Clusters == {ClusterExample, ClusterFull, ClusterTight, ClusterBigLabel, ClusterManagers}

----------------------------------------------------------------------------
(* Program constants *)

FailedCount       == 999     \* _get_node_container_count's value when enumeration raises
DefaultMaxManager == 30
DefaultMaxWorker  == 50
BasePort          == 8080
PortRange         == 1000
DefaultLines      == 30      \* view_logs without a numeric argument
MaxLines          == 100     \* view_logs' cap on the argument

----------------------------------------------------------------------------
(* The orchestrator's services.  One service has one replica, whose task   *)
(* has a desired state and an actual state.  All services created by this  *)
(* program carry the label app=freqtrade.                                  *)

_get_service_name(user_id) == <<"freqtrade", user_id>>

Named(svcs, name) == {s \in svcs : s.name = name}

RunningOn(svcs, node_id) ==
    {s \in svcs : s.node = node_id /\ s.desired = "running" /\ s.state = "running"}

----------------------------------------------------------------------------
(* CapacityProbe *)

\* Running tasks, on a node, of services that do not carry app=freqtrade:
\* services.list(filters={'label': 'app=freqtrade'}) does not return them.
Unlabelled(node_id) == IF node_id = "n1" THEN 2 ELSE 0

_get_node_container_count_AllAssigned(svcs, node_id, bad) ==
    IF node_id \in bad
    THEN FailedCount
    ELSE nodes[node_id].others + Cardinality({s \in svcs : s.node = node_id})

\* bad: the nodes for which the service/task enumeration raises in this call.
_get_node_container_count(svcs, node_id, bad) ==
    IF node_id \in bad
    THEN FailedCount
    ELSE nodes[node_id].others + Cardinality(RunningOn(svcs, node_id))

_get_node_max_containers(node) ==
    CASE node.maxLabel.kind = "int" -> node.maxLabel.val
      [] node.maxLabel.kind = "bad" -> DefaultMaxWorker
      [] OTHER -> IF node.role = "manager" THEN DefaultMaxManager ELSE DefaultMaxWorker

_get_node_ip(node_id, getFault) ==
    IF getFault \/ nodes[node_id].addr = NoAddr THEN NULL ELSE Some(nodes[node_id].addr)

----------------------------------------------------------------------------
(* NodeSelector *)

NodeLoad(svcs, n, bad) ==
    LET current == _get_node_container_count(svcs, n, bad)
        max     == _get_node_max_containers(nodes[n])
    IN  [id |-> n, hostname |-> nodes[n].hostname, role |-> nodes[n].role,
         current |-> current, max |-> max, available |-> max - current,
         priority |-> IF nodes[n].role = "worker" THEN 1 ELSE 2]

KeyLess_MostLoaded(a, b) ==
    \/ a.priority < b.priority
    \/ a.priority = b.priority /\ a.current > b.current

\* The sort key (priority, current), compared as Python compares tuples.
KeyLess(a, b) ==
    \/ a.priority < b.priority
    \/ a.priority = b.priority /\ a.current < b.current

Eligible_OffByOne(svcs, n, bad) ==
    /\ nodes[n].state = "ready"
    /\ nodes[n].availability = "active"
    /\ NodeLoad(svcs, n, bad).available >= 0

Eligible_AnyState(svcs, n, bad) ==
    NodeLoad(svcs, n, bad).available > 0

Eligible(svcs, n, bad) ==
    /\ nodes[n].state = "ready"
    /\ nodes[n].availability = "active"
    /\ NodeLoad(svcs, n, bad).available > 0

_find_best_node_AllNodes(svcs, ord, bad, listFault) ==
    IF listFault THEN NULL
    ELSE
    LET Ok(n)   == Eligible(svcs, n, bad)
        avail   == SelectSeq(ord, Ok)
        load(i) == NodeLoad(svcs, avail[i], bad)
        first   == CHOOSE i \in 1..Len(avail) :
                      /\ \A j \in 1..Len(avail) : ~KeyLess(load(j), load(i))
                      /\ \A j \in 1..(i-1) : KeyLess(load(i), load(j))
    IN  IF avail = << >> THEN NULL ELSE Some(load(first))

\* ord: the order in which the orchestrator lists the nodes; listFault: the
\* node listing raises.  The result is NULL or Some(NodeLoad).
_find_best_node(svcs, ord, bad, listFault) ==
    IF listFault THEN NULL
    ELSE
    LET IsWorker(n) == nodes[n].role = "worker"
        workers == SelectSeq(ord, IsWorker)
        listed  == IF workers = << >> THEN ord ELSE workers
        Ok(n)   == Eligible(svcs, n, bad)
        avail   == SelectSeq(listed, Ok)
        load(i) == NodeLoad(svcs, avail[i], bad)
        first   == CHOOSE i \in 1..Len(avail) :
                      /\ \A j \in 1..Len(avail) : ~KeyLess(load(j), load(i))
                      /\ \A j \in 1..(i-1) : KeyLess(load(i), load(j))
    IN  IF avail = << >> THEN NULL ELSE Some(load(first))

----------------------------------------------------------------------------
(* PlacementStore: the users table of database.py.  A row that does not    *)
(* exist has exists = FALSE.  Nullable columns hold NULL or Some(v).       *)

StatusRunning == "running"      \* "运行中"
StatusStopped == "stopped"      \* "停止", the column's default

SchemaColumns ==
    {"id", "name", "user_id", "status", "security", "api_key", "service_id",
     "service_name", "balance", "inviter_user_id", "invite_code",
     "has_used_invite", "created_at", "updated_at"}

EmptyRow ==
    [exists |-> FALSE, status |-> StatusStopped, api_key |-> NULL, security |-> NULL,
     service_id |-> NULL, service_name |-> NULL, node_ip |-> NULL, api_port |-> NULL]

insert_user(us, user_id) ==
    IF us[user_id].exists THEN us
    ELSE [us EXCEPT ![user_id] = [EmptyRow EXCEPT !.exists = TRUE]]

update_user_api(us, user_id, security, api_key) ==
    IF us[user_id].exists
    THEN [us EXCEPT ![user_id].security = Some(security), ![user_id].api_key = Some(api_key)]
    ELSE us

update_user_status(us, user_id, status) ==
    IF us[user_id].exists THEN [us EXCEPT ![user_id].status = status] ELSE us

clear_service_info(us, user_id) ==
    IF us[user_id].exists
    THEN [us EXCEPT ![user_id].service_id = NULL, ![user_id].service_name = NULL]
    ELSE us

\* The ALTER TABLE statements of update_service_info.
update_service_info_columns(cols) == cols \cup {"node_ip", "api_port"}

\* The UPDATE of update_service_info: its WHERE clause names the column
\* telegram_id; when the table has no such column the statement raises, the
\* function's except clause prints the error and no row is written.
update_service_info(us, cols, user_id, service_id, service_name, node_ip, api_port) ==
    IF "telegram_id" \in update_service_info_columns(cols) /\ us[user_id].exists
    THEN [us EXCEPT ![user_id].service_id = Some(service_id),
                    ![user_id].service_name = Some(service_name),
                    ![user_id].node_ip = Some(node_ip),
                    ![user_id].api_port = Some(api_port)]
    ELSE us

----------------------------------------------------------------------------
(* ConfigManager *)

get_user_api_port_Narrow(user_id) == BasePort + (user_id % 100)

get_user_api_port(user_id) == BasePort + (user_id % PortRange)

NoConfig == [exists |-> FALSE, key |-> NULL, secret |-> NULL]

create_user_config_Plain(user_id, api_key, secret) ==
    [exists |-> TRUE, key |-> Some(api_key), secret |-> Some(secret)]

\* create_user_config receives the real key and secret and writes placeholders.
create_user_config(user_id, api_key, secret) ==
    [exists |-> TRUE, key |-> Some(PLACEHOLDER_API_KEY), secret |-> Some(PLACEHOLDER_SECRET)]

----------------------------------------------------------------------------
(* ServiceLifecycleManager.  Each operation is a function of the state it  *)
(* reads, st = [services, users, userColumns, nextId], and of the faults   *)
(* the orchestrator injects into the call; it returns the state it leaves, *)
(* the (ok, msg) result and the trace of the calls it made.                *)

Outcome(st, ok, msg, calls, best, sid) ==
    [services |-> st.services, users |-> st.users, userColumns |-> st.userColumns,
     nextId |-> st.nextId, ok |-> ok, msg |-> msg, calls |-> calls,
     best |-> best, sid |-> sid]

RemoveService_Noop(svcs, name) == svcs

RemoveService(svcs, name) == svcs \ Named(svcs, name)

CreateRejected_NameOnly(svcs, name, port) == Named(svcs, name) # {}

\* services.create raises if the name or the published port is taken.
CreateRejected(svcs, name, port) ==
    \/ Named(svcs, name) # {}
    \/ \E s \in svcs : s.port = port

\* False when <user_dir>/config/config.json does not exist.
_ensure_user_directories(user_id) == user_id \in templates

\* The request of the call that raises: services.get (an error other than
\* NotFound), service.remove, or the first write to the users table.
StopFaults == {"none", "services_get", "remove", "db_write"}

stop_service_ClearFirst(user_id, fault, st) ==
    LET name    == _get_service_name(user_id)
        cleared == [st EXCEPT !.users = update_user_status(clear_service_info(@, user_id),
                                                           user_id, StatusStopped)]
    IN
    IF ~client THEN Outcome(st, FALSE, MsgNotConnected, << >>, NoNode, NULL)
    ELSE IF fault = "services_get"
    THEN Outcome(cleared, FALSE, MsgStopFailed, <<"services.get">>, NoNode, NULL)
    ELSE IF Named(st.services, name) = {}
    THEN Outcome(cleared, FALSE, MsgNotExist,
                 <<"services.get", "db.clear_service_info", "db.update_user_status">>,
                 NoNode, NULL)
    ELSE IF fault = "remove"
    THEN Outcome(cleared, FALSE, MsgStopFailed, <<"services.get", "service.remove">>,
                 NoNode, NULL)
    ELSE Outcome([cleared EXCEPT !.services = RemoveService(@, name)],
                 TRUE, MsgStopped,
                 <<"services.get", "service.remove", "db.clear_service_info",
                   "db.update_user_status", "db.log_operation">>,
                 NoNode, NULL)

stop_service(user_id, fault, st) ==
    LET name == _get_service_name(user_id) IN
    IF ~client THEN Outcome(st, FALSE, MsgNotConnected, << >>, NoNode, NULL)
    ELSE IF fault = "services_get"
    THEN Outcome(st, FALSE, MsgStopFailed, <<"services.get">>, NoNode, NULL)
    ELSE IF Named(st.services, name) = {} /\ fault = "db_write"
    THEN \* clear_service_info raises inside the NotFound handler: nothing catches it
         Outcome(st, FALSE, Raised, <<"services.get", "db.clear_service_info">>, NoNode, NULL)
    ELSE IF Named(st.services, name) = {}
    THEN Outcome([st EXCEPT !.users = update_user_status(clear_service_info(@, user_id),
                                                          user_id, StatusStopped)],
                 FALSE, MsgNotExist,
                 <<"services.get", "db.clear_service_info", "db.update_user_status">>,
                 NoNode, NULL)
    ELSE IF fault = "remove"
    THEN Outcome(st, FALSE, MsgStopFailed, <<"services.get", "service.remove">>, NoNode, NULL)
    ELSE IF fault = "db_write"
    THEN \* the service is removed, clear_service_info raises, except Exception returns
         Outcome([st EXCEPT !.services = RemoveService(@, name)], FALSE, MsgStopFailed,
                 <<"services.get", "service.remove", "db.clear_service_info">>, NoNode, NULL)
    ELSE Outcome([st EXCEPT !.services = RemoveService(@, name),
                            !.users = update_user_status(clear_service_info(@, user_id),
                                                         user_id, StatusStopped)],
                 TRUE, MsgStopped,
                 <<"services.get", "service.remove", "db.clear_service_info",
                   "db.update_user_status", "db.log_operation">>,
                 NoNode, NULL)

CreateFaults == {"none", "nodes_list", "node_get", "services_get", "remove", "create"}

\* A path is the sequence of its components.
Under(path, dir) == Len(dir) <= Len(path) /\ SubSeq(path, 1, Len(dir)) = dir

\* The environment variables of the submitted service; FT_MAX_CAPITAL is
\* NULL when the variable is not in the list.
EnvVars(api_key, secret, sub) ==
    [API_KEY |-> api_key, API_SECRET |-> secret, FT_MAX_CAPITAL |-> sub,
     REMOTE_IP |-> "local_ip",
     CONFIG_TEMPLATE |-> <<"freqtrade", "custom_config", "config.json">>,
     CONFIG_RUNTIME |-> <<"freqtrade", "runtime_config.json">>]

\* The three bind mounts; the source is the subdirectory of the user's
\* directory on the host.
Mounts(user_id) ==
    {[target |-> <<"freqtrade", "custom_config">>, source |-> <<user_id, "config">>,
      read_only |-> TRUE],
     [target |-> <<"freqtrade", "custom_logs">>, source |-> <<user_id, "logs">>,
      read_only |-> FALSE],
     [target |-> <<"freqtrade", "custom_database">>, source |-> <<user_id, "database">>,
      read_only |-> FALSE]}

\* The service the orchestrator holds after services.create.
NewService(id, user_id, best, node_ip, api_port, env) ==
    [id |-> id, name |-> _get_service_name(user_id), user |-> user_id,
     node |-> best.id, hostname |-> best.hostname, node_ip |-> node_ip,
     port |-> api_port, env |-> env, mounts |-> Mounts(user_id),
     desired |-> "running", state |-> "pending"]

\* Step 12 of create_service: the three database calls after services.create.
PersistPlacement(st, user_id, service_id, service_name, node_ip, api_port) ==
    [st EXCEPT
        !.users = update_user_status(
                      update_service_info(@, st.userColumns, user_id, service_id,
                                          service_name, node_ip, api_port),
                      user_id, StatusRunning),
        !.userColumns = update_service_info_columns(@)]

SubmitAndPersist_PersistFirst(user_id, fault, st, best, node_ip, calls) ==
    LET name     == _get_service_name(user_id)
        user     == st.users[user_id]
        c1       == Append(calls, "db.get_user")
        api_port == get_user_api_port(user_id)
        env      == EnvVars(Val(user.api_key), Val(user.security), subscription[user_id])
        c2       == c1 \o <<"db.get_user_subscription", "db.update_service_info",
                            "db.update_user_status", "services.create">>
        svc      == NewService(st.nextId, user_id, best, node_ip, api_port, env)
        written  == PersistPlacement(st, user_id, svc.id, name, node_ip, api_port)
    IN
    IF ~user.exists
    THEN Outcome(st, FALSE, MsgNoUser, c1, best.id, NULL)
    ELSE IF user.api_key = NULL \/ user.security = NULL
    THEN Outcome(st, FALSE, MsgNoCredentials, c1, best.id, NULL)
    ELSE IF fault = "create" \/ CreateRejected(st.services, name, api_port)
    THEN Outcome(written, FALSE, MsgCreateFailed, c2, best.id, NULL)
    ELSE Outcome([written EXCEPT !.services = @ \cup {svc}, !.nextId = @ + 1],
                 TRUE, MsgCreated, Append(c2, "db.log_operation"), best.id, Some(svc.id))

\* Steps 4 to 12 of create_service, after node selection and cleanup.
\* st is the state the cleanup left, calls the trace so far.
SubmitAndPersist(user_id, fault, st, best, node_ip, calls) ==
    LET name     == _get_service_name(user_id)
        user     == st.users[user_id]
        c1       == Append(calls, "db.get_user")
        api_port == get_user_api_port(user_id)
        env      == EnvVars(Val(user.api_key), Val(user.security), subscription[user_id])
        c2       == c1 \o <<"db.get_user_subscription", "services.create">>
        svc      == NewService(st.nextId, user_id, best, node_ip, api_port, env)
    IN
    IF ~user.exists
    THEN Outcome(st, FALSE, MsgNoUser, c1, best.id, NULL)
    ELSE IF user.api_key = NULL \/ user.security = NULL
    THEN Outcome(st, FALSE, MsgNoCredentials, c1, best.id, NULL)
    ELSE IF fault = "create" \/ CreateRejected(st.services, name, api_port)
    THEN Outcome(st, FALSE, MsgCreateFailed, c2, best.id, NULL)
    ELSE Outcome(PersistPlacement([st EXCEPT !.services = @ \cup {svc}, !.nextId = @ + 1],
                                  user_id, svc.id, name, node_ip, api_port),
                 TRUE, MsgCreated,
                 c2 \o <<"db.update_service_info", "db.update_user_status",
                         "db.log_operation">>,
                 best.id, Some(svc.id))

\* Step 3 of create_service: remove the service of that name if there is one.
CleanupAndSubmit(user_id, fault, st, best, node_ip, calls) ==
    LET name == _get_service_name(user_id)
        c1   == Append(calls, "services.get")
        c2   == Append(c1, "service.remove")
    IN
    IF fault = "services_get"
    THEN Outcome(st, FALSE, MsgCreateFailed, c1, best.id, NULL)
    ELSE IF Named(st.services, name) = {}
    THEN SubmitAndPersist(user_id, fault, st, best, node_ip, c1)
    ELSE IF fault = "remove"
    THEN Outcome(st, FALSE, MsgCreateFailed, c2, best.id, NULL)
    ELSE SubmitAndPersist(user_id, fault,
                          [st EXCEPT !.services = RemoveService(@, name)],
                          best, node_ip, c2)

create_service(user_id, ord, bad, fault, st) ==
    LET found   == _find_best_node(st.services, ord, bad, fault = "nodes_list")
        best    == Val(found)
        ip      == _get_node_ip(best.id, fault = "node_get")
        node_ip == IF ip = NULL THEN best.hostname ELSE Val(ip)
    IN
    IF ~client THEN Outcome(st, FALSE, MsgNotConnected, << >>, NoNode, NULL)
    ELSE IF ~_ensure_user_directories(user_id)
    THEN Outcome(st, FALSE, MsgDirFailed, << >>, NoNode, NULL)
    ELSE IF found = NULL
    THEN Outcome(st, FALSE, MsgNoNode, <<"nodes.list">>, NoNode, NULL)
    ELSE CleanupAndSubmit(user_id, fault, st, best, node_ip, <<"nodes.list", "nodes.get">>)

restart_service_AlwaysCreate(user_id, ord, bad, stopFault, fault, st) ==
    LET stopped == stop_service(user_id, stopFault, st)
        mid     == [services |-> stopped.services, users |-> stopped.users,
                    userColumns |-> stopped.userColumns, nextId |-> stopped.nextId]
        created == create_service(user_id, ord, bad, fault, mid)
    IN  [created EXCEPT !.calls = stopped.calls \o <<"create_service">> \o @]

\* restart_service: stop, then create unless stop failed for a reason other
\* than "service does not exist".  An exception that leaves stop_service
\* leaves restart_service too.
restart_service(user_id, ord, bad, stopFault, fault, st) ==
    LET stopped == stop_service(user_id, stopFault, st)
        mid     == [services |-> stopped.services, users |-> stopped.users,
                    userColumns |-> stopped.userColumns, nextId |-> stopped.nextId]
        created == create_service(user_id, ord, bad, fault, mid)
    IN
    IF ~stopped.ok /\ stopped.msg # MsgNotExist
    THEN stopped
    ELSE [created EXCEPT !.calls = stopped.calls \o <<"create_service">> \o @]

get_service_status_ByTasks(user_id, fault) ==
    IF ~client THEN "error"
    ELSE IF fault # "none" THEN "error"
    ELSE IF \E s \in Named(services, _get_service_name(user_id)) : s.state = "running"
    THEN "running"
    ELSE "stopped"

get_service_status_ErrorAsStopped(user_id, fault) ==
    IF ~client THEN "error"
    ELSE IF fault # "none" THEN "stopped"
    ELSE IF Named(services, _get_service_name(user_id)) = {} THEN "stopped"
    ELSE "running"

\* get_service_status: the 'status' field of the dictionary it returns.
get_service_status(user_id, fault) ==
    IF ~client THEN "error"
    ELSE IF fault # "none" THEN "error"
    ELSE IF Named(services, _get_service_name(user_id)) = {} THEN "stopped"
    ELSE "running"

LogFaults == {"none", "services_get", "logs"}

get_service_logs_NotFoundRaises(user_id, lines, fault) ==
    IF ~client THEN [msg |-> MsgNotConnected, tail |-> NULL]
    ELSE IF fault = "services_get" THEN [msg |-> MsgLogsFailed, tail |-> NULL]
    ELSE IF Named(services, _get_service_name(user_id)) = {}
    THEN [msg |-> Raised, tail |-> NULL]
    ELSE [msg |-> MsgLogs, tail |-> Some(lines)]

\* get_service_logs: the string it returns, and the tail it passed to
\* service.logs (NULL when it made no such request).
get_service_logs(user_id, lines, fault) ==
    IF ~client THEN [msg |-> MsgNotConnected, tail |-> NULL]
    ELSE IF fault = "services_get" THEN [msg |-> MsgLogsFailed, tail |-> NULL]
    ELSE IF Named(services, _get_service_name(user_id)) = {}
    THEN [msg |-> MsgNotExist, tail |-> NULL]
    ELSE IF fault = "logs" THEN [msg |-> MsgLogsFailed, tail |-> Some(lines)]
    ELSE [msg |-> MsgLogs, tail |-> Some(lines)]

\* The argument of /logs: none, text that is not all digits, or digits.
NoArg     == [kind |-> "none", val |-> 0]
TextArg   == [kind |-> "text", val |-> 0]
Digits(n) == [kind |-> "digits", val |-> n]

LineCounts == {0, 100, 101}
LogArgs == {NoArg, TextArg} \cup {Digits(n) : n \in LineCounts}

view_logs_lines_Uncapped(arg) ==
    IF arg.kind = "digits" THEN arg.val ELSE DefaultLines

\* view_logs: the line count it passes to get_service_logs.
view_logs_lines(arg) ==
    IF arg.kind = "digits"
    THEN (IF arg.val < MaxLines THEN arg.val ELSE MaxLines)
    ELSE DefaultLines

----------------------------------------------------------------------------
(* State *)

\* The users with an active subscription, and its max_capital.
Subscribers == {12345}
Capital == "10000.0"

\* The orchestrator moves a task on, as <<desired state, state>>: it starts,
\* it fails and is shut down, and the restart policy replaces it.
NextTask(desired, state) ==
    CASE desired = "running"  /\ state = "pending" -> <<"running", "running">>
      [] desired = "running"  /\ state = "running" -> <<"shutdown", "failed">>
      [] OTHER                                     -> <<"running", "pending">>

\* No selection has overlapped another or seen a task that was not running.
Settled == [alone |-> TRUE, running |-> TRUE]

\* No container is observed.
NoContainer == [pc |-> "none"]

\* last: the call (op, user), its result (ok, msg; status for
\* get_service_status), the trace of its calls, the node it selected and
\* whether that node's task enumeration had raised, the id of the service it
\* created, whether the orchestrator answered every request of the call
\* (healthy), whether the user's service existed when it started (had), and
\* for get_service_logs the tail it requested and the line count asked for.
NoCall ==
    [op |-> "none", user |-> 0, ok |-> FALSE, msg |-> "", calls |-> << >>,
     best |-> NoNode, bestFailed |-> FALSE, healthy |-> TRUE,
     sid |-> NULL, had |-> FALSE, status |-> "", tail |-> NULL, asked |-> NULL]

Cleared(us, user_id) ==
    /\ us[user_id].service_id = NULL
    /\ us[user_id].service_name = NULL
    /\ us[user_id].status = StatusStopped

State == [services |-> services, users |-> users, userColumns |-> userColumns,
          nextId |-> nextId]

BadSets == {S \in SUBSET (DOMAIN nodes) : Cardinality(S) <= MaxBadNodes}

Init ==
    /\ client \in BOOLEAN
    /\ nodes \in Clusters
    /\ ~client => nodes = ClusterExample
    /\ services = {}
    /\ nextId = 1
    /\ users = [u \in UserIds |-> EmptyRow]
    /\ userColumns = SchemaColumns
    /\ subscription = [u \in UserIds |-> IF u \in Subscribers THEN Some(Capital) ELSE NULL]
    /\ hostConfig = [u \in UserIds |-> NoConfig]
    /\ templates = {}
    /\ publishedPorts = [u \in UserIds |-> {}]
    /\ last = NoCall
    /\ container = NoContainer
    /\ selected = [u \in UserIds |-> NULL]
    /\ settled = Settled

\* What every lifecycle call leaves: the outcome's state and its observation.
Returns(op, user_id, res, bad, healthy) ==
    /\ res.sid # NULL => nextId <= MaxServiceIds
    /\ services' = res.services
    /\ users' = res.users
    /\ userColumns' = res.userColumns
    /\ nextId' = res.nextId
    /\ publishedPorts' =
          IF res.sid = NULL THEN publishedPorts
          ELSE [publishedPorts EXCEPT ![user_id] = @ \cup {get_user_api_port(user_id)}]
    /\ last' = [op |-> op, user |-> user_id, ok |-> res.ok, msg |-> res.msg,
                calls |-> res.calls, best |-> res.best,
                bestFailed |-> res.best \in bad, healthy |-> healthy,
                sid |-> res.sid,
                had |-> Named(services, _get_service_name(user_id)) # {},
                status |-> "", tail |-> NULL, asked |-> NULL]
    /\ UNCHANGED <<client, nodes, subscription, hostConfig, templates>>

\* One request of a call fails at most: in restart_service, either a request
\* of its stop or a request of its create.
RestartFaults ==
    {<<f, "none">> : f \in StopFaults} \cup {<<"none", f>> : f \in CreateFaults}

CreateService(user_id) ==
    \E ord \in Orders(DOMAIN nodes), bad \in BadSets, fault \in CreateFaults :
        /\ Returns("create", user_id, create_service(user_id, ord, bad, fault, State),
                   bad, fault = "none" /\ bad = {})
        /\ UNCHANGED aux

StopService(user_id) ==
    \E fault \in StopFaults :
        /\ Returns("stop", user_id, stop_service(user_id, fault, State), {}, fault = "none")
        /\ UNCHANGED aux

RestartService(user_id) ==
    \E ord \in Orders(DOMAIN nodes), bad \in BadSets, f \in RestartFaults :
        /\ Returns("restart", user_id,
                   restart_service(user_id, ord, bad, f[1], f[2], State),
                   bad, f = <<"none", "none">> /\ bad = {})
        /\ UNCHANGED aux

GetServiceStatus(user_id) ==
    \E fault \in {"none", "api_error"} :
        /\ last' = [NoCall EXCEPT !.op = "status", !.user = user_id, !.ok = TRUE,
                                  !.healthy = fault = "none",
                                  !.had = Named(services, _get_service_name(user_id)) # {},
                                  !.status = get_service_status(user_id, fault)]
        /\ UNCHANGED <<client, nodes, services, nextId, users, userColumns,
                       subscription, hostConfig, templates, publishedPorts, aux>>

\* /logs: view_logs, for a registered user.
ViewLogs(user_id) ==
    \E arg \in LogArgs, fault \in LogFaults :
        LET res == get_service_logs(user_id, view_logs_lines(arg), fault) IN
        /\ users[user_id].exists
        /\ last' = [NoCall EXCEPT !.op = "logs", !.user = user_id,
                                  !.ok = res.msg = MsgLogs, !.msg = res.msg,
                                  !.healthy = fault = "none",
                                  !.had = Named(services, _get_service_name(user_id)) # {},
                                  !.tail = res.tail,
                                  !.asked = IF arg.kind = "digits" THEN Some(arg.val) ELSE NULL]
        /\ UNCHANGED <<client, nodes, services, nextId, users, userColumns,
                       subscription, hostConfig, templates, publishedPorts, aux>>

\* /register: insert_user.  A behaviour follows one registered tenant; the
\* services of the other tenants are the nodes' `others`.
InsertUser(user_id) ==
    /\ \A w \in UserIds : ~users[w].exists
    /\ users' = insert_user(users, user_id)
    /\ UNCHANGED <<client, nodes, services, nextId, userColumns, subscription,
                   hostConfig, templates, publishedPorts, last, aux>>

\* /bind: the key and secret are stored in the users table and the config
\* template is written.
Bind(user_id) ==
    \E api_key \in ApiKeys, secret \in Secrets :
        /\ users[user_id].exists
        /\ users[user_id].api_key = NULL
        /\ users' = update_user_api(users, user_id, secret, api_key)
        /\ hostConfig' = [hostConfig EXCEPT ![user_id] =
                              create_user_config(user_id, api_key, secret)]
        /\ UNCHANGED <<client, nodes, services, nextId, userColumns, subscription,
                       templates, publishedPorts, last, aux>>

\* The deployment puts the config template into the directory create_service
\* mounts, /mnt/freqtrade-data/user_data_manager/<user_id>/config.
ProvisionTemplate(user_id) ==
    /\ templates = {}
    /\ templates' = templates \cup {user_id}
    /\ UNCHANGED <<client, nodes, services, nextId, users, userColumns, subscription,
                   hostConfig, publishedPorts, last, aux>>

\* The orchestrator advances the task of one service.
TaskProgress ==
    \E s \in services :
        LET t == NextTask(s.desired, s.state) IN
        /\ services' = (services \ {s}) \cup {[s EXCEPT !.desired = t[1], !.state = t[2]]}
        /\ UNCHANGED <<client, nodes, nextId, users, userColumns, subscription,
                       hostConfig, templates, publishedPorts, last, aux>>

Next ==
    \/ \E u \in UserIds : CreateService(u)
    \/ \E u \in UserIds : StopService(u)
    \/ \E u \in UserIds : RestartService(u)
    \/ \E u \in UserIds : GetServiceStatus(u)
    \/ \E u \in UserIds : ViewLogs(u)
    \/ \E u \in UserIds : InsertUser(u)
    \/ \E u \in UserIds : Bind(u)
    \/ \E u \in UserIds : ProvisionTemplate(u)
    \/ TaskProgress

Spec == Init /\ [][Next]_vars

----------------------------------------------------------------------------
(* Calls of several users in progress at once.  create_service reads the   *)
(* nodes' load (SelectNode) and later submits the service (Submit) with no *)
(* reservation between the two; calls of other users may run in between.   *)

\* 346 and 1346 are given the same port.
Tenants == UserIds \cup {1346}

\* create_service up to the selection of the node.
SelectNode(user_id) ==
    /\ selected[user_id] = NULL
    /\ \E ord \in Orders(DOMAIN nodes) :
          LET found == _find_best_node(services, ord, {}, FALSE) IN
          IF ~client \/ ~_ensure_user_directories(user_id) \/ found = NULL
          THEN /\ Returns("create", user_id,
                          create_service(user_id, ord, {}, "none", State), {}, TRUE)
               /\ UNCHANGED selected
          ELSE /\ selected' = [selected EXCEPT ![user_id] = found]
               /\ UNCHANGED manager
    /\ settled' =
          [alone   |-> settled.alone /\ \A w \in DOMAIN selected : selected[w] = NULL,
           running |-> settled.running
                         /\ \A s \in services : s.desired = "running" /\ s.state = "running"]
    /\ UNCHANGED container

\* create_service from the node's address on: cleanup, submission, database.
Submit(user_id) ==
    /\ selected[user_id] # NULL
    /\ LET best    == Val(selected[user_id])
           ip      == _get_node_ip(best.id, FALSE)
           node_ip == IF ip = NULL THEN best.hostname ELSE Val(ip)
       IN  Returns("create", user_id,
                   CleanupAndSubmit(user_id, "none", State, best, node_ip,
                                    <<"nodes.list", "nodes.get">>),
                   {}, TRUE)
    /\ selected' = [selected EXCEPT ![user_id] = NULL]
    /\ UNCHANGED <<container, settled>>

Stop(user_id) ==
    /\ Returns("stop", user_id, stop_service(user_id, "none", State), {}, TRUE)
    /\ UNCHANGED aux

\* Every tenant is registered and bound and has the config template.
FleetInit ==
    /\ client = TRUE
    /\ nodes \in {ClusterTight, ClusterExample}
    /\ services = {}
    /\ nextId = 1
    /\ users = [u \in Tenants |->
                  [EmptyRow EXCEPT !.exists = TRUE, !.api_key = Some("K1"),
                                   !.security = Some("S1")]]
    /\ userColumns = SchemaColumns
    /\ subscription = [u \in Tenants |-> IF u \in Subscribers THEN Some(Capital) ELSE NULL]
    /\ hostConfig = [u \in Tenants |-> create_user_config(u, "K1", "S1")]
    /\ templates = Tenants
    /\ publishedPorts = [u \in Tenants |-> {}]
    /\ last = NoCall
    /\ container = NoContainer
    /\ selected = [u \in Tenants |-> NULL]
    /\ settled = Settled

FleetNext ==
    \/ \E u \in Tenants : SelectNode(u)
    \/ \E u \in Tenants : Submit(u)
    \/ \E u \in Tenants : Stop(u)
    \/ TaskProgress

SpecFleet == FleetInit /\ [][FleetNext]_vars

----------------------------------------------------------------------------
(* The startup script create_service hands to the container (entrypoint_script). *)
(* The container's environment gives each variable as NULL (unset) or          *)
(* Some(text).  A JSON document is reduced to its exchange section: absent or   *)
(* null (present = FALSE), a value that is not an object (object = FALSE), or   *)
(* an object with its key and secret, each NULL or Some(text).                  *)

Exchange(present, object, key, secret) ==
    [present |-> present, object |-> object, key |-> key, secret |-> secret]

NoExchange     == Exchange(FALSE, FALSE, NULL, NULL)
ScalarExchange == Exchange(TRUE, FALSE, NULL, NULL)
EmptyExchange  == Exchange(TRUE, TRUE, NULL, NULL)
\* The exchange section create_user_config writes.
PlaceholderExchange ==
    Exchange(TRUE, TRUE, Some(PLACEHOLDER_API_KEY), Some(PLACEHOLDER_SECRET))

\* What $CONFIG_TEMPLATE holds: no file, a file jq cannot parse, or a document.
TemplateFiles ==
    {[kind |-> "missing", exchange |-> NoExchange],
     [kind |-> "invalid", exchange |-> NoExchange]}
    \cup {[kind |-> "json", exchange |-> e] :
              e \in {NoExchange, ScalarExchange, EmptyExchange, PlaceholderExchange}}

ContainerEnvs ==
    [API_KEY : {NULL, Some(""), Some("K1"), Some("null")},
     API_SECRET : {NULL, Some(""), Some("S1"), Some("null")},
     FT_MAX_CAPITAL : {NULL, Some(Capital)},
     REMOTE_IP : {NULL, Some("local_ip")}]

\* "${VAR}": the value, or the empty string when VAR is unset.
ShellVar(v) == IF v = NULL THEN "" ELSE Val(v)

\* jq -r of a value: the text of a string, "null" for null.
JqRaw(v) == IF v = NULL THEN "null" ELSE Val(v)

\* The jq filter of the merge: ok is FALSE when jq fails.
JqInject(file, apikey, secret) ==
    IF file.kind # "json" THEN [ok |-> FALSE, exchange |-> NoExchange]
    ELSE IF ~file.exchange.present THEN [ok |-> TRUE, exchange |-> file.exchange]
    ELSE IF ~file.exchange.object THEN [ok |-> FALSE, exchange |-> NoExchange]
    ELSE [ok |-> TRUE,
          exchange |-> [file.exchange EXCEPT !.key = Some(apikey), !.secret = Some(secret)]]

\* jq -r '.exchange.key' and '.exchange.secret' of the runtime config.
KEY_IN_CONFIG(exchange) == JqRaw(exchange.key)
SECRET_IN_CONFIG(exchange) == JqRaw(exchange.secret)

CredentialsUnset_KeyOnly(env) == ShellVar(env.API_KEY) = ""

\* [ -z "$API_KEY" ] || [ -z "$API_SECRET" ]
CredentialsUnset(env) ==
    ShellVar(env.API_KEY) = "" \/ ShellVar(env.API_SECRET) = ""

\* A container before the script's first test.  runtime: $CONFIG_RUNTIME was
\* written, and the exchange section it holds; diag: the last error echoed;
\* status: the exit status, NULL while the script or the trader runs.
NewContainer(env, file) ==
    [pc |-> "credentials", env |-> env, template |-> file,
     written |-> FALSE, runtime |-> NoExchange, verified |-> FALSE,
     started |-> FALSE, status |-> NULL, diag |-> ""]

Exit(c, code, diag) == [c EXCEPT !.pc = "exited", !.status = Some(code), !.diag = diag]

ContainerStep(next) ==
    /\ container' = next
    /\ UNCHANGED <<manager, selected, settled>>

CheckCredentials ==
    /\ container.pc = "credentials"
    /\ ContainerStep(IF CredentialsUnset(container.env)
                     THEN Exit(container, 1, "API_KEY or API_SECRET not set")
                     ELSE [container EXCEPT !.pc = "capital"])

CheckCapital ==
    /\ container.pc = "capital"
    /\ ContainerStep(IF ShellVar(container.env.FT_MAX_CAPITAL) = ""
                     THEN Exit(container, 1, "FT_MAX_CAPITAL not set")
                     ELSE [container EXCEPT !.pc = "remote_ip"])

CheckRemoteIp ==
    /\ container.pc = "remote_ip"
    /\ ContainerStep(IF ShellVar(container.env.REMOTE_IP) = ""
                     THEN Exit(container, 1, "REMOTE_IP not set")
                     ELSE [container EXCEPT !.pc = "template"])

CheckTemplate ==
    /\ container.pc = "template"
    /\ ContainerStep(IF container.template.kind = "missing"
                     THEN Exit(container, 1, "Configuration template not found")
                     ELSE [container EXCEPT !.pc = "inject"])

\* jq ... "$CONFIG_TEMPLATE" > "$CONFIG_RUNTIME": the redirection creates the
\* file; when jq fails, set -e ends the script with jq's status.
Inject ==
    /\ container.pc = "inject"
    /\ LET out == JqInject(container.template, ShellVar(container.env.API_KEY),
                           ShellVar(container.env.API_SECRET))
       IN  ContainerStep(IF out.ok
                         THEN [container EXCEPT !.pc = "verify", !.written = TRUE,
                                                !.runtime = out.exchange]
                         ELSE [Exit(container, 5, "") EXCEPT !.written = TRUE])

Verify ==
    /\ container.pc = "verify"
    /\ ContainerStep(
          IF /\ KEY_IN_CONFIG(container.runtime) = ShellVar(container.env.API_KEY)
             /\ SECRET_IN_CONFIG(container.runtime) = ShellVar(container.env.API_SECRET)
          THEN [container EXCEPT !.pc = "exec", !.verified = TRUE]
          ELSE Exit(container, 1, "Configuration verification failed"))

\* exec freqtrade trade -c "$CONFIG_RUNTIME" ...
StartTrading ==
    /\ container.pc = "exec"
    /\ ContainerStep([container EXCEPT !.pc = "trading", !.started = TRUE])

ContainerInit ==
    /\ client = TRUE
    /\ nodes = ClusterExample
    /\ services = {}
    /\ nextId = 1
    /\ users = [u \in UserIds |-> EmptyRow]
    /\ userColumns = SchemaColumns
    /\ subscription = [u \in UserIds |-> IF u \in Subscribers THEN Some(Capital) ELSE NULL]
    /\ hostConfig = [u \in UserIds |-> NoConfig]
    /\ templates = {}
    /\ publishedPorts = [u \in UserIds |-> {}]
    /\ last = NoCall
    /\ selected = [u \in UserIds |-> NULL]
    /\ settled = Settled
    /\ \E env \in ContainerEnvs, file \in TemplateFiles :
          container = NewContainer(env, file)

ContainerNext ==
    \/ CheckCredentials
    \/ CheckCapital
    \/ CheckRemoteIp
    \/ CheckTemplate
    \/ Inject
    \/ Verify
    \/ StartTrading

SpecContainer == ContainerInit /\ [][ContainerNext]_vars

----------------------------------------------------------------------------
(* Properties *)

OrchestratorCalls ==
    {"nodes.list", "nodes.get", "services.get", "service.remove", "services.create"}

DbWrites ==
    {"db.update_service_info", "db.update_user_status", "db.clear_service_info",
     "db.log_operation"}

Made(calls, kinds) == {i \in DOMAIN calls : calls[i] \in kinds}

\* A step that is a lifecycle call: only those change `last`.
Called == last' # last

\* The nodes _find_best_node lists: the workers, or all nodes if there are none.
Listed ==
    LET workers == {n \in DOMAIN nodes : nodes[n].role = "worker"}
    IN  IF workers = {} THEN DOMAIN nodes ELSE workers

\* C1 (P1, idempotent stop): when stop_service is called twice in a row for a
\* user against a connected, answering orchestrator, the second call is not
\* reported as a failure and the placement is cleared after each of the two.
C1_StopTwiceSucceeds ==
    [][(/\ client
        /\ last.op = "stop" /\ last.healthy
        /\ Called /\ last'.op = "stop" /\ last'.healthy /\ last'.user = last.user)
       => (/\ last'.ok
           /\ Cleared(users, last.user)
           /\ Cleared(users', last.user))]_vars

\* C2 (P2, no double placement): the orchestrator never holds two services of
\* one user's name; after a create that returned success it holds exactly one,
\* the service that call created; and a create that found the user's service
\* and reached the submission with every request answered returned success.
C2_NoDoublePlacement ==
    /\ \A u \in UserIds : Cardinality(Named(services, _get_service_name(u))) <= 1
    /\ \A s \in services : s.id < nextId
    /\ (last.op \in {"create", "restart"} /\ last.ok)
          => \E s \in services :
                /\ Named(services, _get_service_name(last.user)) = {s}
                /\ Some(s.id) = last.sid
    /\ (last.op = "create" /\ last.had /\ last.healthy
            /\ Made(last.calls, {"services.create"}) # {})
          => last.ok

C2_Witness == last.op = "create" /\ last.ok /\ last.had

\* C3 (P3, capacity respected): when every node the selector lists reports a
\* container count equal to its maximum, create_service returns the
\* no-available-node failure, makes no services.create call and leaves the
\* orchestrator's services as they were.
C3_CapacityRespected ==
    [][(/\ Called /\ last'.op = "create" /\ last'.healthy
        /\ client /\ _ensure_user_directories(last'.user)
        /\ \A n \in Listed :
              _get_node_container_count(services, n, {}) = _get_node_max_containers(nodes[n]))
       => (/\ ~last'.ok
           /\ last'.msg = MsgNoNode
           /\ Made(last'.calls, {"services.create"}) = {}
           /\ services' = services)]_vars

C3_Witness ==
    /\ nodes = ClusterFull
    /\ last.op = "create" /\ last.healthy /\ last.msg = MsgNoNode

\* C4 (P4, deterministic port): every port submitted for a user is
\* 8080 + (user_id mod 1000), 8425 for user 12345, so all creates of one user
\* publish the same port, whatever stops and restarts lie between them.
C4_DeterministicPort ==
    /\ \A s \in services : s.port = 8080 + (s.user % 1000)
    /\ \A u \in UserIds : publishedPorts[u] \subseteq {8080 + (u % 1000)}
    /\ publishedPorts[12345] \subseteq {8425}

C4_Witness ==
    /\ publishedPorts[12345] = {8425}
    /\ nextId > 2
    /\ last.op \in {"create", "restart"} /\ last.ok /\ last.user = 12345

\* C5 (P5, credential non-leakage): the config template on the host holds the
\* placeholder key and secret, never a key or secret of the user; the config
\* directory is mounted read-only and the runtime config path of every
\* submitted service lies under no mount.
C5_NoCredentialOnHost ==
    /\ \A u \in UserIds :
          hostConfig[u].exists =>
              /\ hostConfig[u].key = Some(PLACEHOLDER_API_KEY)
              /\ hostConfig[u].secret = Some(PLACEHOLDER_SECRET)
              /\ Val(hostConfig[u].key) \notin ApiKeys
              /\ Val(hostConfig[u].secret) \notin Secrets
    /\ \A s \in services :
          /\ \A m \in s.mounts : ~Under(s.env.CONFIG_RUNTIME, m.target)
          /\ \A m \in s.mounts : Under(s.env.CONFIG_TEMPLATE, m.target) => m.read_only

C5_Witness ==
    /\ last.op = "create" /\ last.ok
    /\ hostConfig[last.user].exists
    /\ \E s \in services : s.user = last.user /\ s.env.API_KEY \in ApiKeys

\* C6 (P6, fail-safe load reporting): a node whose task enumeration raised in
\* the call is never the node the call selects.
C6_FailedProbeExcluded ==
    last.op \in {"create", "restart"} => ~last.bestFailed

\* C7 (P7, status state machine): with the Docker client connected and the
\* orchestrator answering, get_service_status gives 'stopped' for a user for
\* whom no service was ever created, 'running' right after a create that
\* returned success and 'stopped' right after a stop that returned success.
C7_StatusStateMachine ==
    client =>
        /\ \A u \in UserIds :
              publishedPorts[u] = {} => get_service_status(u, "none") = "stopped"
        /\ (last.op \in {"create", "restart"} /\ last.ok)
              => get_service_status(last.user, "none") = "running"
        /\ (last.op = "stop" /\ last.ok)
              => get_service_status(last.user, "none") = "stopped"

C7_Witness ==
    /\ client /\ last.op = "stop" /\ last.ok /\ nextId > 2

\* C8: after a create that returned success the user's row holds the id of
\* the created service, the service name, the node's address, the published
\* port and the status running.
C8_PlacementPersisted ==
    (last.op = "create" /\ last.ok) =>
        LET row == users[last.user] IN
        /\ row.service_id = last.sid
        /\ row.service_name = Some(_get_service_name(last.user))
        /\ \E s \in services : s.user = last.user /\ row.node_ip = Some(s.node_ip)
        /\ row.api_port = Some(get_user_api_port(last.user))
        /\ row.status = StatusRunning

\* C9: a create_service that returns failure writes nothing to the users
\* table: the rows are as before the call and the call made no database
\* write, also when it is the create of a restart_service.
C9_FailedCreateWritesNothing ==
    [][(Called /\ ~last'.ok) =>
          /\ last'.op = "create" =>
                /\ users' = users
                /\ Made(last'.calls, DbWrites) = {}
          /\ (last'.op = "restart" /\ Made(last'.calls, {"create_service"}) # {}) =>
                \A i \in Made(last'.calls, DbWrites) :
                    \A j \in Made(last'.calls, {"create_service"}) : i < j]_vars

C9_Witness ==
    /\ last.op = "create" /\ ~last.ok /\ last.had
    /\ last.msg = MsgCreateFailed
    /\ Made(last.calls, {"services.create"}) # {}

\* C10: a create_service that returns the credentials-missing failure has
\* made no orchestrator call.
C10_CredentialsShortCircuit ==
    (last.op = "create" /\ last.msg = MsgNoCredentials)
        => Made(last.calls, OrchestratorCalls) = {}

\* The calls of the create_service of the latest call: the whole trace of a
\* create, the part after the create_service marker of a restart.
CreateTrace(c) ==
    IF c.op = "create" THEN c.calls
    ELSE IF c.op = "restart" /\ Made(c.calls, {"create_service"}) # {}
    THEN LET k == CHOOSE i \in Made(c.calls, {"create_service"}) : TRUE
         IN  SubSeq(c.calls, k + 1, Len(c.calls))
    ELSE << >>

\* In trace t every call of kind a comes before every call of kind b.
Before(t, a, b) == \A i \in Made(t, {a}) : \A j \in Made(t, {b}) : i < j

\* C11: within one create_service the steps come in the order node selection
\* (nodes.list), spec construction (the reads of the user's key and
\* subscription), submission (services.create), placement persistence
\* (update_service_info, update_user_status); each later step is made only
\* after the earlier ones, and a call that fails makes no placement write.
C11_CreateStepOrder ==
    LET t == CreateTrace(last)
        Needs(b, a) == Made(t, {b}) # {} => Made(t, {a}) # {}
    IN  /\ Before(t, "nodes.list", "db.get_user")
        /\ Before(t, "nodes.list", "db.get_user_subscription")
        /\ Before(t, "db.get_user", "services.create")
        /\ Before(t, "db.get_user_subscription", "services.create")
        /\ Before(t, "services.create", "db.update_service_info")
        /\ Before(t, "services.create", "db.update_user_status")
        /\ Needs("db.get_user", "nodes.list")
        /\ Needs("services.create", "db.get_user_subscription")
        /\ Needs("db.update_service_info", "services.create")
        /\ Needs("db.update_user_status", "services.create")
        /\ (last.op \in {"create", "restart"} /\ ~last.ok)
              => Made(t, {"db.update_service_info", "db.update_user_status"}) = {}
        /\ (last.op \in {"create", "restart"} /\ last.ok)
              => /\ Made(t, {"db.update_service_info"}) # {}
                 /\ last.sid # NULL

C11_Witness ==
    /\ last.op = "restart" /\ last.ok /\ last.had
    /\ Made(CreateTrace(last), {"db.update_service_info"}) # {}

\* C12: a call that removed the user's service (stop_service that found it,
\* the cleanup of create_service) or found none to remove (stop_service on
\* NotFound), and after which the user has no service, leaves the user's row
\* with service_id and node_ip null and status stopped.
C12_ClearedOnRemoval ==
    [][LET u       == last'.user
           name    == _get_service_name(u)
           removed == /\ Named(services, name) # {}
                      /\ Named(services, name) \cap services' = {}
           absent  == last'.op = "stop" /\ last'.msg = MsgNotExist
       IN  (/\ Called /\ last'.op \in {"create", "stop", "restart"}
            /\ removed \/ absent
            /\ Named(services', name) = {})
           => (/\ users'[u].service_id = NULL
               /\ users'[u].node_ip = NULL
               /\ users'[u].status = StatusStopped)]_vars

\* The calls stop_service makes, and those create_service makes.
StopCalls ==
    {"services.get", "service.remove", "db.clear_service_info", "db.update_user_status",
     "db.log_operation"}

CreateCalls ==
    {"nodes.list", "nodes.get", "services.get", "service.remove", "db.get_user",
     "db.get_user_subscription", "services.create", "db.update_service_info",
     "db.update_user_status", "db.log_operation"}

\* C13: restart_service is stop_service followed by create_service.  Its
\* trace is the trace of the stop, then, when the stop returned success or
\* "service does not exist", the create and nothing but the create; when the
\* stop failed otherwise (or raised) the restart ends there with the stop's
\* result: no create, nothing selected, nothing submitted.
C13_RestartIsStopThenCreate ==
    [][(Called /\ last'.op = "restart") =>
        \E f \in StopFaults :
            LET stopped == stop_service(last'.user, f, State)
                n       == Len(stopped.calls)
                t       == last'.calls
            IN  /\ Len(t) >= n
                /\ SubSeq(t, 1, n) = stopped.calls
                /\ IF stopped.ok \/ stopped.msg = MsgNotExist
                   THEN /\ Len(t) > n
                        /\ t[n + 1] = "create_service"
                        /\ Made(t, {"create_service"}) = {n + 1}
                        /\ \A i \in 1..n : t[i] \in StopCalls
                        /\ \A i \in (n + 2)..Len(t) : t[i] \in CreateCalls
                   ELSE /\ t = stopped.calls
                        /\ ~last'.ok
                        /\ last'.msg = stopped.msg
                        /\ last'.best = NoNode
                        /\ last'.sid = NULL
                        /\ services' = stopped.services
                        /\ users' = stopped.users]_vars

C13_Witness ==
    /\ last.op = "restart" /\ ~last.had /\ last.ok
    /\ Made(last.calls, {"create_service"}) # {}

\* A restart whose stop failed on the orchestrator's error: no create.
C13_WitnessStopFailed ==
    /\ last.op = "restart" /\ last.had /\ last.msg = MsgStopFailed
    /\ Made(last.calls, {"create_service"}) = {}

\* C14: get_service_status returns 'stopped' only when the client is
\* connected and the orchestrator answered that the service is not found; it
\* returns 'error', not 'stopped' or 'running', whenever the query failed or
\* the client is not connected; it returns 'running' when the service is found.
C14_StatusErrorNotStopped ==
    last.op = "status" =>
        /\ last.status \in {"stopped", "running", "error"}
        /\ last.status = "stopped" <=> (client /\ last.healthy /\ ~last.had)
        /\ last.status = "running" <=> (client /\ last.healthy /\ last.had)
        /\ (~client \/ ~last.healthy) => last.status = "error"

C14_Witness ==
    /\ last.op = "status" /\ client /\ ~last.healthy /\ ~last.had
    /\ last.status = "error"

C14_WitnessNotConnected ==
    /\ last.op = "status" /\ ~client /\ last.status = "error"

\* C15: every lifecycle call (create, stop, restart, status, logs) ends by
\* returning a result; none ends with an exception leaving the operation,
\* whichever request of the call raised.
C15_NoExceptionEscapes ==
    last.op \in {"create", "stop", "restart", "status", "logs"} => last.msg # Raised

\* C16: get_service_logs for a user whose service does not exist, with the
\* client connected and the orchestrator answering, returns the "service
\* does not exist" message, raises nothing, requests no log, and leaves the
\* orchestrator's services and the users table as they were.
C16_LogsSentinelWhenAbsent ==
    [][(/\ Called /\ last'.op = "logs"
        /\ client /\ last'.healthy
        /\ Named(services, _get_service_name(last'.user)) = {})
       => (/\ last'.msg = MsgNotExist
           /\ last'.msg # Raised
           /\ last'.tail = NULL
           /\ services' = services /\ nextId' = nextId
           /\ users' = users /\ userColumns' = userColumns)]_vars

C16_Witness ==
    /\ last.op = "logs" /\ client /\ last.healthy /\ ~last.had
    /\ last.msg = MsgNotExist
    /\ publishedPorts[last.user] # {}

\* C17: the tail get_service_logs passes to service.logs is the line count
\* of the /logs argument capped at 100, or 30 when the argument is absent or
\* not a number; it never exceeds 100.
C17_LogTailCapped ==
    (last.op = "logs" /\ last.tail # NULL) =>
        /\ Val(last.tail) <= 100
        /\ Val(last.tail) >= 0
        /\ last.asked = NULL => Val(last.tail) = 30
        /\ (last.asked # NULL /\ Val(last.asked) <= 100) => last.tail = last.asked
        /\ (last.asked # NULL /\ Val(last.asked) > 100) => Val(last.tail) = 100

C17_Witness ==
    /\ last.op = "logs" /\ last.asked = Some(101) /\ last.tail = Some(100)

\* The nodes that survive _find_best_node's filter when the enumeration of
\* the nodes in bad raises: listed, ready, active and below their maximum.
Survivors(bad) ==
    {n \in Listed :
        /\ nodes[n].state = "ready"
        /\ nodes[n].availability = "active"
        /\ _get_node_max_containers(nodes[n])
              - _get_node_container_count(services, n, bad) > 0}

Priority(n) == IF nodes[n].role = "worker" THEN 1 ELSE 2

\* C18: whenever a node survives the filter _find_best_node returns one, and
\* the node it returns is a survivor that no survivor precedes under
\* (priority, current count), workers first, least loaded first; for the
\* cluster W1 (worker 5/50), W2 (worker 50/50), M1 (manager 1/5) it is W1.
C18_NodeRanking ==
    /\ \A ord \in Orders(DOMAIN nodes), bad \in BadSets :
          LET r      == _find_best_node(services, ord, bad, FALSE)
              cur(n) == _get_node_container_count(services, n, bad)
          IN  /\ Survivors(bad) # {} <=> r # NULL
              /\ r # NULL =>
                    /\ Val(r).id \in Survivors(bad)
                    /\ Val(r).current = cur(Val(r).id)
                    /\ \A m \in Survivors(bad) :
                          \/ Priority(Val(r).id) < Priority(m)
                          \/ /\ Priority(Val(r).id) = Priority(m)
                             /\ cur(Val(r).id) <= cur(m)
    /\ (nodes = ClusterExample /\ services = {}) =>
          \A ord \in Orders(DOMAIN nodes) :
              /\ _find_best_node(services, ord, {}, FALSE) # NULL
              /\ Val(_find_best_node(services, ord, {}, FALSE)).hostname = "W1"
    /\ (nodes = ClusterExample /\ last.op \in {"create", "restart"} /\ last.best # NoNode)
          => nodes[last.best].hostname = "W1"

C18_Witness ==
    /\ nodes = ClusterExample
    /\ last.op = "create" /\ last.ok /\ last.best = "n1" /\ ~last.had

\* Two workers survive with different counts and the less loaded one is taken.
C18_WitnessLeastLoaded ==
    /\ last.op = "create" /\ last.ok /\ last.best = "n2" /\ ~last.had
    /\ {"n1", "n2"} \subseteq Survivors({})
    /\ nodes["n1"].others > nodes["n2"].others

C20_ManagersOnlyWithoutWorkers ==
    LET workers == {n \in DOMAIN nodes : nodes[n].role = "worker"}
        Fit(n, bad) ==
            /\ nodes[n].state = "ready"
            /\ nodes[n].availability = "active"
            /\ _get_node_max_containers(nodes[n])
                  - _get_node_container_count(services, n, bad) > 0
    IN  /\ \A ord \in Orders(DOMAIN nodes), bad \in BadSets :
              LET r == _find_best_node(services, ord, bad, FALSE) IN
              /\ (workers # {} /\ r # NULL) => Val(r).id \in workers
              /\ (workers # {} /\ \A n \in workers : ~Fit(n, bad)) => r = NULL
              /\ (workers = {} /\ \E n \in DOMAIN nodes : Fit(n, bad)) =>
                    r # NULL /\ Val(r).role = "manager"
        /\ (workers # {} /\ last.best # NoNode) => last.best \in workers
        /\ (last.op = "create" /\ last.healthy /\ last.msg = MsgCreated)
              => (workers = {} <=> nodes[last.best].role = "manager")

C20_Witness ==
    /\ last.op = "create" /\ last.healthy /\ last.msg = MsgNoNode
    /\ \E n \in DOMAIN nodes : nodes[n].role = "worker"
    /\ \E n \in DOMAIN nodes :
          /\ nodes[n].role = "manager"
          /\ nodes[n].state = "ready" /\ nodes[n].availability = "active"
          /\ _get_node_max_containers(nodes[n])
                - _get_node_container_count(services, n, {}) > 0

\* With no worker in the cluster a manager is selected.
C20_WitnessManagerSelected ==
    /\ nodes = ClusterManagers
    /\ last.op = "create" /\ last.ok /\ nodes[last.best].role = "manager"

\* C21: the node a create_service selects is the node _find_best_node returns
\* for the same cluster and loads under every order in which the orchestrator
\* may list the nodes.
C21_TieBreakIgnoresOrder ==
    [][(Called /\ last'.op = "create" /\ last'.healthy /\ last'.best # NoNode) =>
          \A ord \in Orders(DOMAIN nodes) :
              LET r == _find_best_node(services, ord, {}, FALSE) IN
              r # NULL /\ Val(r).id = last'.best]_vars

\* Every task assigned to a node: of the services of this model's users, of
\* the other tenants (`others`) and of the unlabelled services.
AllTasks(node_id) ==
    {[of |-> <<"user", s.id>>, labelled |-> TRUE, desired |-> s.desired, state |-> s.state] :
        s \in {x \in services : x.node = node_id}}
    \cup {[of |-> <<"other", i>>, labelled |-> TRUE, desired |-> "running",
           state |-> "running"] : i \in 1..nodes[node_id].others}
    \cup {[of |-> <<"unlabelled", i>>, labelled |-> FALSE, desired |-> "running",
           state |-> "running"] : i \in 1..Unlabelled(node_id)}

\* C22: when the enumeration does not raise, _get_node_container_count is the
\* number of tasks assigned to the node that belong to a service labelled
\* app=freqtrade and have desired state and state running; pending, failed
\* and shut-down tasks and tasks of unlabelled services are not counted.
C22_CountsRunningLabelledTasks ==
    \A n \in DOMAIN nodes :
        _get_node_container_count(services, n, {}) =
            Cardinality({t \in AllTasks(n) :
                            t.labelled /\ t.desired = "running" /\ t.state = "running"})

\* A node holds a task that is not running beside unlabelled and running ones.
C22_Witness ==
    /\ \E s \in services : s.node = "n1" /\ s.state \in {"pending", "failed"}
    /\ Unlabelled("n1") > 0
    /\ nodes["n1"].others > 0
    /\ last.op = "create" /\ last.had /\ last.best # NoNode

\* The call ended because a write to the users table raised.
DbRaised(c) == c.calls # << >> /\ c.calls[Len(c.calls)] = "db.clear_service_info"

C27_NoGhostRecord ==
    \A u \in UserIds :
        (users[u].service_id # NULL \/ users[u].status = StatusRunning)
            => Named(services, _get_service_name(u)) # {}

\* C30: the service a successful create_service submitted carries a
\* non-empty API_KEY, API_SECRET, FT_MAX_CAPITAL and REMOTE_IP.
C30_EnvComplete ==
    (last.op = "create" /\ last.ok) =>
        \A s \in Named(services, _get_service_name(last.user)) :
            /\ s.env.API_KEY # ""
            /\ s.env.API_SECRET # ""
            /\ s.env.REMOTE_IP # ""
            /\ s.env.FT_MAX_CAPITAL # NULL
            /\ s.env.FT_MAX_CAPITAL # Some("")

\* C23: the trading process is started only after the runtime config was
\* written and verified, and then the runtime config holds an exchange
\* section whose key and secret are the values of API_KEY and API_SECRET; a
\* container whose template has no exchange section never starts it and
\* ends with a non-zero status.
C23_StartOnlyVerified ==
    /\ container.started =>
          /\ container.written /\ container.verified
          /\ container.runtime.present /\ container.runtime.object
          /\ container.runtime.key = Some(ShellVar(container.env.API_KEY))
          /\ container.runtime.secret = Some(ShellVar(container.env.API_SECRET))
    /\ (container.pc # "none" /\ ~container.template.exchange.present) =>
          /\ ~container.started
          /\ container.pc \in {"exited", "trading"} =>
                (container.status # NULL /\ container.status # Some(0))

\* C24: a container whose API_KEY or API_SECRET is unset or empty never
\* writes the runtime config and never starts the trading process; its
\* script ends at the first test with the credentials diagnostic and status 1.
C24_RefusesWithoutCredentials ==
    (/\ container.pc # "none"
     /\ \/ container.env.API_KEY \in {NULL, Some("")}
        \/ container.env.API_SECRET \in {NULL, Some("")})
    => (/\ ~container.written /\ ~container.started /\ ~container.verified
        /\ container.pc \in {"credentials", "exited"}
        /\ container.pc = "exited" =>
              /\ container.status = Some(1)
              /\ container.diag = "API_KEY or API_SECRET not set")

C24_Witness ==
    /\ container.pc = "exited"
    /\ container.env.API_KEY = Some("K1") /\ container.env.API_SECRET = NULL
    /\ container.env.FT_MAX_CAPITAL # NULL /\ container.env.REMOTE_IP # NULL
    /\ container.template.exchange = PlaceholderExchange
    /\ container.status = Some(1)

\* A node holds more running containers than its maximum.
Overcommitted(n) ==
    _get_node_container_count(services, n, {}) > _get_node_max_containers(nodes[n])

\* C25: as long as every node selection ran with no other create_service in
\* progress and with every submitted task running, no node holds more
\* running containers than its maximum; two create_service calls that
\* interleave can put a node over its maximum (C25_WitnessRace).
C25_SerialCreatesRespectMaximum ==
    (settled.alone /\ settled.running) => \A n \in DOMAIN nodes : ~Overcommitted(n)

\* Two services placed one after the other, both running, a node at its maximum.
C25_Witness ==
    /\ settled.alone /\ settled.running
    /\ Cardinality(services) = 2
    /\ \A s \in services : s.state = "running"
    /\ \E s \in services :
          _get_node_container_count(services, s.node, {})
              = _get_node_max_containers(nodes[s.node])

\* Two calls of different users interleaved, every task running at each
\* selection, and both landed on one node, now over its maximum.
C25_WitnessRace ==
    /\ ~settled.alone /\ settled.running
    /\ \E s, t \in services :
          /\ s.user # t.user /\ s.node = t.node
          /\ Overcommitted(s.node)

\* C28: a lifecycle call for one user leaves every other user's row and
\* service as they were, and a create_service that reaches services.create
\* is not refused on account of another user's service.
C28_UsersIndependent ==
    [][Called =>
          /\ \A b \in DOMAIN users \ {last'.user} :
                /\ users'[b] = users[b]
                /\ Named(services', _get_service_name(b))
                      = Named(services, _get_service_name(b))
          /\ (last'.op = "create" /\ Made(last'.calls, {"services.create"}) # {})
                => last'.ok]_vars

====
